---- MODULE Spec2Model ----
(***************************************************************************)
(* Maternal-Health-AI-System: the session/token lifecycle of the mobile    *)
(* ApiClient (lib/api) and the socket.io chat relay of the backend server. *)
(*                                                                         *)
(* The state machines of this module:                                      *)
(*   ClientSpec  one ApiClient with MaxProcs concurrent request() calls,   *)
(*               the durable storage behind it and the auth backend;       *)
(*               SessionSpec adds login, register, logout and              *)
(*               isAuthenticated to the operations that are invoked.       *)
(*   ChatSpec    the io.on('connection') handlers of the server for two    *)
(*               sockets and MaxMsgs send-message events, without the      *)
(*               presence events; ChatFairSpec adds that getUser answers.  *)
(*   RelaySpec   all handlers, presence events included, for MaxChat       *)
(*               send-message events.                                      *)
(*   PolicySpec  the database under the row level security policy of       *)
(*               mother_profiles (supabase/fix_rls_policies.sql).          *)
(* Every await of an external call (fetch, storage, getUser, insert) is a  *)
(* step boundary: what runs between two such awaits runs atomically on the *)
(* JavaScript event loop, and an await of one of the ApiClient's own async *)
(* methods resumes in the turn in which that method returns.  A remote     *)
(* call (fetch, getUser, insert) completes in the step in which its        *)
(* awaiting handler resumes; the backend may answer any call with any      *)
(* outcome.  The storage helper is the native one (SecureStore): each      *)
(* getItem / setItem / removeItem takes effect on its own, at some time    *)
(* between its call and the resumption of its caller, and does not throw.  *)
(***************************************************************************)
EXTENDS Integers, Sequences, FiniteSets, TLC

VARIABLES
    accessToken,    \* ApiClient.accessToken  (0 = null, s = access token of session s)
    refreshToken,   \* ApiClient.refreshToken (0 = null, s = refresh token of session s)
    storage,        \* durable storage: the three keys TOKEN_KEY, REFRESH_TOKEN_KEY, USER_KEY
    loader,         \* the unawaited loadTokens() started by the constructor
    req,            \* the request() invocations, one per element of Procs
    issued,         \* backend: number of sessions issued so far
    conn,           \* relay: state of every socket
    rooms,          \* relay: socket.io room membership, room -> set of sockets
    msgs,           \* relay: the send-message events, in arrival order
    store,          \* relay: rows of chat_messages, in the order their inserts completed
    delivered,      \* relay: the receive-message broadcasts, in emit order
    presence,       \* relay: the last user-typing / user-stop-typing broadcast
    profiles,       \* database: the profile table that holds a row for each user
    appointments,   \* database: rows of appointments, as <<doctor, mother>>
    selected        \* database: the last SELECT on mother_profiles and its rows

clientVars == <<accessToken, refreshToken, storage, loader, req, issued>>
relayVars  == <<conn, rooms, msgs, store, delivered, presence>>
dbVars     == <<profiles, appointments, selected>>
vars       == <<accessToken, refreshToken, storage, loader, req, issued,
                conn, rooms, msgs, store, delivered, presence,
                profiles, appointments, selected>>

(***************************************************************************)
(* Bounds                                                                  *)
(***************************************************************************)
\* concurrent request() invocations on the one ApiClient
MaxProcs == 2
\* send-message events that ever arrive at the relay (ChatSpec)
MaxMsgs == 2
\* send-message events that ever arrive at the relay when the presence events are
\* modelled too (RelaySpec)
MaxChat == 1

Procs == 1..MaxProcs
Conns == {"X", "Y"}
Rooms == {"r1", "r2"}
\* the identities a token can verify to
Users == {"u1", "u2"}
\* the senderId of the payloads (the handler only compares it with the verified
\* identity, so one value stands for all)
SenderIds == {"u1"}

\* null token
NoToken == 0

(***************************************************************************)
(* ApiClient                                                               *)
(***************************************************************************)
EmptyStorage == [token |-> NoToken, refresh |-> NoToken, user |-> FALSE]

\* storage left behind by an earlier run that had logged in (session 1)
LoggedInStorage == [token |-> 1, refresh |-> 1, user |-> TRUE]

\* the keys saveTokens writes and loadTokens reads
TokenKeys == {"token", "refresh"}

\* mutant: clearTokens that forgets removeItem(USER_KEY)
ClearedKeys_KeepsUser == {"token", "refresh"}

\* the keys clearTokens removes
ClearedKeys == {"token", "refresh", "user"}

\* the public operations of the ApiClient: a plain API call (getProfile,
\* getNotifications, forgotPassword, ...), login, register, logout, isAuthenticated
Kinds == {"api", "login", "register", "logout", "isAuthenticated"}

IdleReq == [kind |-> "none", pc |-> "idle", first |-> "none",
            rbody |-> NoToken, rres |-> "none",
            got |-> NoToken, sent |-> 0, retryHdr |-> NoToken, retry |-> "none",
            res |-> "none", resOf |-> "none", sess |-> NoToken, pend |-> {},
            ltoken |-> NoToken, lrefresh |-> NoToken]

\* what fetch() + response.json() can produce for an API call: a 2xx response, a
\* 401 response, a response with another rejecting status, a response with a
\* rejecting status whose body response.json() cannot read, or no response at all
\* (fetch throws)
Responses == {"ok", "401", "err", "unreadable", "throw"}

\* what the POST /api/auth/refresh call can produce
RefreshOutcomes == {"ok", "reject", "throw"}

ClientInit ==
    /\ accessToken = NoToken
    /\ refreshToken = NoToken
    /\ storage \in {EmptyStorage, LoggedInStorage}
    /\ loader = [pc |-> "reading", pend |-> TokenKeys, token |-> NoToken,
                 refresh |-> NoToken]
    /\ req = [p \in Procs |-> IdleReq]
    /\ issued = 1

\* loadTokens of the constructor: one of its two getItem completes
LoadTokensRead(k) ==
    /\ loader.pc = "reading"
    /\ k \in loader.pend
    /\ loader' = [loader EXCEPT ![k] = storage[k], !.pend = @ \ {k}]
    /\ UNCHANGED <<accessToken, refreshToken, storage, req, issued>>
    /\ UNCHANGED <<relayVars, dbVars>>

\* loadTokens of the constructor, after await Promise.all: the values read are
\* assigned
LoadTokensAssign ==
    /\ loader.pc = "reading"
    /\ loader.pend = {}
    /\ accessToken' = loader.token
    /\ refreshToken' = loader.refresh
    /\ loader' = [loader EXCEPT !.pc = "done"]
    /\ UNCHANGED <<storage, req, issued>>
    /\ UNCHANGED <<relayVars, dbVars>>

\* the try block of request() threw: fetch or response.json() rejected
Thrown(r) == r \in {"throw", "unreadable"}

\* the result request() returns for a response: data on ok, the response body as error
\* on a rejecting status, 'Network error' from the catch block
ResultOf(r) == IF r = "ok" THEN "data" ELSE IF Thrown(r) THEN "network" ELSE "error"

\* the response whose body the result carries: none in the catch block
BodyOf(r, which) == IF Thrown(r) THEN "none" ELSE which

\* the invocations are numbered in the order they start
InOrder(p) == IF p = 1 THEN TRUE ELSE req[p - 1].pc # "idle"

\* request(), up to the first await: the Authorization header is built from
\* this.accessToken and the call is sent
RequestStart(p, k) ==
    /\ req[p].pc = "idle"
    /\ InOrder(p)
    /\ req' = [req EXCEPT ![p].kind = k, ![p].pc = "fetch", ![p].sent = 1]
    /\ UNCHANGED <<accessToken, refreshToken, storage, loader, issued>>
    /\ UNCHANGED <<relayVars, dbVars>>

\* refreshAccessToken, up to its await: the refresh call is sent with this.refreshToken
RefreshStart(p, r) ==
    req' = [req EXCEPT ![p].pc = "refresh", ![p].first = r, ![p].rbody = refreshToken]

\* the session a response body can carry: the login route answers 200 with a
\* session, the register route 201 with a session or with session: null
SessionsIn(k, r) ==
    IF r = "ok" /\ k = "login" THEN {issued + 1}
    ELSE IF r = "ok" /\ k = "register" THEN {issued + 1, NoToken}
    ELSE {NoToken}

\* the backend's count of sessions once it has answered with session s
IssuedWith(s) == IF s = NoToken THEN issued ELSE s

\* saveTokens, up to its await: both fields are assigned
SaveTokensAssign(s) ==
    /\ accessToken' = s
    /\ refreshToken' = s

\* mutant: clearTokens that nulls the access token only
ClearTokensAssign_KeepsRefresh ==
    /\ accessToken' = NoToken
    /\ refreshToken' = refreshToken

\* clearTokens, up to its await: both fields are nulled
ClearTokensAssign ==
    /\ accessToken' = NoToken
    /\ refreshToken' = NoToken

\* request() returns the result in record r to its caller, which resumes in the
\* same turn: login and register call saveTokens when the result carries a
\* session, logout calls clearTokens whatever the result, a plain API call ends
Resume(p, r) ==
    IF r.kind \in {"login", "register"} /\ r.sess # NoToken
      THEN /\ SaveTokensAssign(r.sess)
           /\ req' = [req EXCEPT ![p] = [r EXCEPT !.pc = "login-saving",
                                                  !.pend = TokenKeys]]
    ELSE IF r.kind = "logout"
      THEN /\ ClearTokensAssign
           /\ req' = [req EXCEPT ![p] = [r EXCEPT !.pc = "logout-clearing",
                                                  !.pend = ClearedKeys]]
    ELSE /\ req' = [req EXCEPT ![p] = [r EXCEPT !.pc = IF r.kind = "api" THEN "done"
                                                                         ELSE "returned"]]
         /\ UNCHANGED <<accessToken, refreshToken>>

\* request() returns after a response to the first call
Return(p, r, res, of, s) ==
    Resume(p, [req[p] EXCEPT !.first = r, !.res = res, !.resOf = of, !.sess = s])

\* mutant: every rejecting status starts a refresh
Unauthorized_AnyError(r) == r \in {"401", "err"}

\* response.status === 401
Unauthorized(r) == r = "401"

\* request(), after await fetch / await response.json() of the first call
RequestResponse(p, r) ==
    /\ req[p].pc = "fetch"
    /\ IF Unauthorized(r) /\ refreshToken # NoToken
         THEN RefreshStart(p, r) /\ UNCHANGED <<accessToken, refreshToken, issued>>
         ELSE \E s \in SessionsIn(req[p].kind, r) :
                  /\ Return(p, r, ResultOf(r), BodyOf(r, "first"), s)
                  /\ issued' = IssuedWith(s)
    /\ UNCHANGED <<storage, loader>>
    /\ UNCHANGED <<relayVars, dbVars>>

\* refreshAccessToken, after await fetch of the refresh call
RefreshResponse(p, o) ==
    /\ req[p].pc = "refresh"
    /\ IF o = "ok"
         THEN /\ issued' = issued + 1
              /\ SaveTokensAssign(issued + 1)
              /\ req' = [req EXCEPT ![p].pc = "saving", ![p].rres = o,
                                     ![p].got = issued + 1, ![p].pend = TokenKeys]
         ELSE /\ ClearTokensAssign
              /\ req' = [req EXCEPT ![p].pc = "clearing", ![p].rres = o,
                                     ![p].pend = ClearedKeys]
              /\ UNCHANGED issued
    /\ UNCHANGED <<storage, loader>>
    /\ UNCHANGED <<relayVars, dbVars>>

\* the positions at which an invocation awaits setItem / removeItem calls
Writing == {"saving", "clearing", "login-saving", "login-user", "logout-clearing"}

\* what the pending storage call of invocation r leaves under key k: the session
\* passed to saveTokens, the user passed to saveUser, nothing after removeItem
Written(r, k) ==
    IF r.pc = "saving" THEN r.got
    ELSE IF r.pc = "login-saving" THEN r.sess
    ELSE IF r.pc = "login-user" THEN TRUE
    ELSE EmptyStorage[k]

\* one setItem / removeItem of an invocation completes
StorageWrite(p, k) ==
    /\ req[p].pc \in Writing
    /\ k \in req[p].pend
    /\ storage' = [storage EXCEPT ![k] = Written(req[p], k)]
    /\ req' = [req EXCEPT ![p].pend = @ \ {k}]
    /\ UNCHANGED <<accessToken, refreshToken, loader, issued>>
    /\ UNCHANGED <<relayVars, dbVars>>

\* the retry of request(): the header is rebuilt from this.accessToken and the
\* original call is sent again
RetryStart(p) ==
    req' = [req EXCEPT ![p].pc = "retry", ![p].retryHdr = accessToken,
                       ![p].sent = req[p].sent + 1]

\* saveTokens, after its await (both setItem done); refreshAccessToken returns true
\* and request() retries
SaveTokensDone(p) ==
    /\ req[p].pc = "saving"
    /\ req[p].pend = {}
    /\ RetryStart(p)
    /\ UNCHANGED <<accessToken, refreshToken, storage, loader, issued>>
    /\ UNCHANGED <<relayVars, dbVars>>

\* clearTokens, after its await (the three removeItem done); refreshAccessToken
\* returns false and request() returns the error of the first response
ClearTokensDone(p) ==
    /\ req[p].pc = "clearing"
    /\ req[p].pend = {}
    /\ Resume(p, [req[p] EXCEPT !.res = "error", !.resOf = "first"])
    /\ UNCHANGED <<storage, loader, issued>>
    /\ UNCHANGED <<relayVars, dbVars>>

\* request(), after await fetch / await retryResponse.json() of the retry
RetryResponse(p, r) ==
    /\ req[p].pc = "retry"
    /\ \E s \in SessionsIn(req[p].kind, r) :
           /\ Resume(p, [req[p] EXCEPT !.retry = r, !.res = ResultOf(r),
                                       !.resOf = BodyOf(r, "retry"), !.sess = s])
           /\ issued' = IssuedWith(s)
    /\ UNCHANGED <<storage, loader>>
    /\ UNCHANGED <<relayVars, dbVars>>

\* login() and register(), after await this.saveTokens(): login calls saveUser,
\* register returns
SessionSaved(p) ==
    /\ req[p].pc = "login-saving"
    /\ req[p].pend = {}
    /\ req' = IF req[p].kind = "login"
                THEN [req EXCEPT ![p].pc = "login-user", ![p].pend = {"user"}]
                ELSE [req EXCEPT ![p].pc = "returned"]
    /\ UNCHANGED <<accessToken, refreshToken, storage, loader, issued>>
    /\ UNCHANGED <<relayVars, dbVars>>

\* login(), after await this.saveUser(): login returns
UserSaved(p) ==
    /\ req[p].pc = "login-user"
    /\ req[p].pend = {}
    /\ req' = [req EXCEPT ![p].pc = "returned"]
    /\ UNCHANGED <<accessToken, refreshToken, storage, loader, issued>>
    /\ UNCHANGED <<relayVars, dbVars>>

\* logout(), after await this.clearTokens(): logout returns the result's error
LogoutDone(p) ==
    /\ req[p].pc = "logout-clearing"
    /\ req[p].pend = {}
    /\ req' = [req EXCEPT ![p].pc = "returned"]
    /\ UNCHANGED <<accessToken, refreshToken, storage, loader, issued>>
    /\ UNCHANGED <<relayVars, dbVars>>

\* isAuthenticated(), up to its await: loadTokens is called when no access token
\* is held, otherwise true is returned
IsAuthenticatedStart(p) ==
    /\ req[p].pc = "idle"
    /\ InOrder(p)
    /\ req' = IF accessToken # NoToken
                THEN [req EXCEPT ![p].kind = "isAuthenticated", ![p].pc = "returned",
                                 ![p].res = "true"]
                ELSE [req EXCEPT ![p].kind = "isAuthenticated", ![p].pc = "loading",
                                 ![p].pend = TokenKeys]
    /\ UNCHANGED <<accessToken, refreshToken, storage, loader, issued>>
    /\ UNCHANGED <<relayVars, dbVars>>

\* loadTokens of isAuthenticated: one of its two getItem completes
StorageRead(p, k) ==
    /\ req[p].pc = "loading"
    /\ k \in req[p].pend
    /\ req' = [req EXCEPT ![p].pend = @ \ {k},
                          ![p].ltoken = IF k = "token" THEN storage[k] ELSE @,
                          ![p].lrefresh = IF k = "refresh" THEN storage[k] ELSE @]
    /\ UNCHANGED <<accessToken, refreshToken, storage, loader, issued>>
    /\ UNCHANGED <<relayVars, dbVars>>

\* loadTokens of isAuthenticated, after await Promise.all: the values read are
\* assigned, and isAuthenticated resumes in the same turn and returns
\* !!this.accessToken
IsAuthenticatedDone(p) ==
    /\ req[p].pc = "loading"
    /\ req[p].pend = {}
    /\ accessToken' = req[p].ltoken
    /\ refreshToken' = req[p].lrefresh
    /\ req' = [req EXCEPT ![p].pc = "returned",
                          ![p].res = IF req[p].ltoken # NoToken THEN "true" ELSE "false"]
    /\ UNCHANGED <<storage, loader, issued>>
    /\ UNCHANGED <<relayVars, dbVars>>

\* plain API calls only
ClientNext ==
    \/ \E k \in TokenKeys : LoadTokensRead(k)
    \/ LoadTokensAssign
    \/ \E p \in Procs : RequestStart(p, "api")
    \/ \E p \in Procs, r \in Responses : RequestResponse(p, r)
    \/ \E p \in Procs, o \in RefreshOutcomes : RefreshResponse(p, o)
    \/ \E p \in Procs, k \in ClearedKeys : StorageWrite(p, k)
    \/ \E p \in Procs : SaveTokensDone(p)
    \/ \E p \in Procs : ClearTokensDone(p)
    \/ \E p \in Procs, r \in Responses : RetryResponse(p, r)

\* every public operation
SessionNext ==
    \/ \E k \in TokenKeys : LoadTokensRead(k)
    \/ LoadTokensAssign
    \/ \E p \in Procs, k \in Kinds \ {"isAuthenticated"} : RequestStart(p, k)
    \/ \E p \in Procs, r \in Responses : RequestResponse(p, r)
    \/ \E p \in Procs, o \in RefreshOutcomes : RefreshResponse(p, o)
    \/ \E p \in Procs, k \in ClearedKeys : StorageWrite(p, k)
    \/ \E p \in Procs : SaveTokensDone(p)
    \/ \E p \in Procs : ClearTokensDone(p)
    \/ \E p \in Procs, r \in Responses : RetryResponse(p, r)
    \/ \E p \in Procs : SessionSaved(p)
    \/ \E p \in Procs : UserSaved(p)
    \/ \E p \in Procs : LogoutDone(p)
    \/ \E p \in Procs : IsAuthenticatedStart(p)
    \/ \E p \in Procs, k \in TokenKeys : StorageRead(p, k)
    \/ \E p \in Procs : IsAuthenticatedDone(p)

(***************************************************************************)
(* Claims about the ApiClient                                              *)
(***************************************************************************)
\* the request() invocations whose refresh call is in flight
RefreshInFlight == {p \in Procs : req[p].pc = "refresh"}

\* C1: single-flight refresh: at no time are two refresh calls of one Token
\* Store in flight; request() calls that receive 401 while a refresh is in flight
\* wait for it instead of issuing their own.
C1_SingleFlightRefresh == Cardinality(RefreshInFlight) <= 1

\* all invocations received 401 while the same refresh token was held (so all
\* were in flight together) and all have returned; the backend answered every
\* refresh call, and every retry carried the token its refresh delivered and was
\* accepted
ConcurrentUnauthorizedDone ==
    /\ \A p \in Procs : /\ req[p].pc = "done"
                        /\ req[p].first = "401"
                        /\ req[p].rbody # NoToken
                        /\ req[p].rres \in {"ok", "reject"}
                        /\ req[p].retry \in {"none", "ok"}
                        /\ req[p].retryHdr = req[p].got
    /\ \A p, q \in Procs : req[p].rbody = req[q].rbody

\* C2: uniform outcome under concurrent 401s: the N concurrent calls either all
\* return success or all return the original unauthorized error, never a mix.
C2_UniformOutcome ==
    ConcurrentUnauthorizedDone =>
        \/ \A p \in Procs : req[p].res = "data"
        \/ \A p \in Procs : req[p].res = "error" /\ req[p].resOf = "first"

\* C3: retry exactly once with the new token: after a successful refresh the
\* original request is sent exactly once more, its Authorization header carries
\* the access token that refresh delivered, and the retry's result is the final
\* result (no further refresh, no further retry).
C3_RetryOnceWithNewToken ==
    \A p \in Procs :
        req[p].rres = "ok" /\ req[p].pc \in {"retry", "done"} =>
            /\ req[p].sent = 2
            /\ req[p].retryHdr = req[p].got
            /\ req[p].pc = "done" =>
                   /\ req[p].res = ResultOf(req[p].retry)
                   /\ req[p].resOf = BodyOf(req[p].retry, "retry")

\* a refresh that did not succeed: rejected by the backend, or no response
RefreshFailed(r) == r.rres \in {"reject", "throw"}

\* C4, on the states: a request() whose refresh failed returns the error of the
\* original 401 response and has sent the original request once only.
C4_ReturnsOriginalError ==
    \A p \in Procs :
        RefreshFailed(req[p]) /\ req[p].pc = "done" =>
            /\ req[p].first = "401"
            /\ req[p].res = "error" /\ req[p].resOf = "first"
            /\ req[p].sent = 1 /\ req[p].retry = "none"

\* C4, on the steps: the step that receives the failed refresh nulls both tokens
\* in memory and calls removeItem for the token, the refresh token and the cached
\* user; each of these calls leaves its key absent from durable storage, and that
\* request() returns only when the three of them have completed.
C4_ClearsSession ==
    \A p \in Procs :
        /\ ~RefreshFailed(req[p]) /\ RefreshFailed(req'[p]) =>
               /\ accessToken' = NoToken /\ refreshToken' = NoToken
               /\ req'[p].pc = "clearing"
               /\ req'[p].pend = {"token", "refresh", "user"}
        /\ RefreshFailed(req[p]) /\ req[p].pc = "clearing" =>
               \A k \in req[p].pend \ req'[p].pend : storage'[k] = EmptyStorage[k]
        /\ RefreshFailed(req[p]) /\ req[p].pc = "clearing" /\ req'[p].pc # "clearing" =>
               req[p].pend = {} /\ req'[p].pc = "done"

NotUnauthorized(r) == r.first \in {"ok", "err", "unreadable"}

\* C15, on the states: a request() whose response was not 401 never issued a
\* refresh call and sent its call once; when the response was readable, its body
\* is the result.
C15_NoRefresh ==
    \A p \in Procs :
        NotUnauthorized(req[p]) =>
            /\ req[p].pc = "done"
            /\ req[p].rbody = NoToken /\ req[p].rres = "none" /\ req[p].got = NoToken
            /\ req[p].sent = 1 /\ req[p].retry = "none"
            /\ req[p].first \in {"ok", "err"} =>
                   /\ req[p].res = (IF req[p].first = "ok" THEN "data" ELSE "error")
                   /\ req[p].resOf = "first"

\* C15, on the steps: the step in which request() receives a response other than
\* 401 returns and leaves both tokens and the three storage keys as they were.
C15_StoreUnchanged ==
    \A p \in Procs :
        ~NotUnauthorized(req[p]) /\ NotUnauthorized(req'[p]) =>
            /\ req[p].pc = "fetch" /\ req'[p].pc = "done"
            /\ UNCHANGED <<accessToken, refreshToken, storage>>

C16_TokensPaired ==
    /\ accessToken = refreshToken
    /\ storage.token = storage.refresh

\* this step sets or clears the token pair in memory
PairChanges == accessToken' # accessToken \/ refreshToken' # refreshToken

\* invocation p reaches position pc in this step
Reaches(p, pc) == req[p].pc # pc /\ req'[p].pc = pc

\* C17, on the steps: the token pair in memory is set by a login whose result
\* carries a session or by a successful refresh, cleared by logout or by a failed
\* refresh, and otherwise only filled, while empty, with the pair that durable
\* storage holds.
C17_PairStep ==
    PairChanges =>
        \/ \E p \in Procs : /\ req'[p].kind = "login" /\ Reaches(p, "login-saving")
                             /\ accessToken' = req'[p].sess
                             /\ refreshToken' = req'[p].sess
        \/ \E p \in Procs : /\ req[p].pc = "refresh" /\ Reaches(p, "saving")
                             /\ accessToken' = req'[p].got
                             /\ refreshToken' = req'[p].got
        \/ \E p \in Procs : /\ Reaches(p, "logout-clearing")
                             /\ accessToken' = NoToken /\ refreshToken' = NoToken
        \/ \E p \in Procs : /\ req[p].pc = "refresh" /\ Reaches(p, "clearing")
                             /\ accessToken' = NoToken /\ refreshToken' = NoToken
        \/ /\ accessToken = NoToken /\ refreshToken = NoToken
           /\ accessToken' = storage.token /\ refreshToken' = storage.refresh

\* C17: session mutation is confined: the token pair is set only by a successful
\* login or a successful refresh and cleared only by logout or a refresh failure;
\* every other ApiClient operation (register, isAuthenticated, profile and
\* notification calls, a failed login) leaves the token pair unchanged.
C17_SessionConfined == [][C17_PairStep]_vars

\* invocation q awaits the setItem calls of saveTokens and not both are done
Saving(q) == req[q].pc \in {"saving", "login-saving"} /\ req[q].pend # {}

\* the session invocation q passed to saveTokens
SavedSession(q) == IF req[q].pc = "saving" THEN req[q].got ELSE req[q].sess

\* invocation p sends a call in this step; its Authorization header is built from
\* this.accessToken
Sends(p) == req'[p].sent > req[p].sent

\* C18: persist before use: no outbound call carries an access token whose
\* saveTokens has not yet written both tokens to durable storage, calls of other
\* request() invocations running concurrently with the save included.
C18_PersistBeforeUse ==
    [][\A p \in Procs :
          Sends(p) /\ accessToken # NoToken =>
              ~\E q \in Procs : Saving(q) /\ SavedSession(q) = accessToken]_vars

\* C19: logout clears before returning: in the step in which logout() returns,
\* whatever the backend answered, the access and refresh tokens in memory are
\* null and the token, refresh-token and cached-user keys are absent from durable
\* storage.
C19_LogoutClears ==
    [][\A p \in Procs :
          req'[p].kind = "logout" /\ Reaches(p, "returned") =>
              /\ accessToken' = NoToken /\ refreshToken' = NoToken
              /\ storage' = EmptyStorage]_vars

\* what the backend answered to the last send of request() r
LastAnswer(r) == IF r.retry # "none" THEN r.retry ELSE r.first

\* C20: network errors are a distinct kind: request() returns 'Network error'
\* exactly when its call received no response; a response with a rejecting status
\* is never reported as 'Network error', and no response is never reported as
\* a backend error.
C20_NetworkErrorDistinct ==
    \A p \in Procs :
        req[p].pc = "done" =>
            /\ (req[p].res = "network") = (LastAnswer(req[p]) = "throw")
            /\ LastAnswer(req[p]) \in {"401", "err", "unreadable"} =>
                   req[p].res = "error"

\* request() r received 401 while a refresh token was held, and has returned
UnauthorizedWithRefreshToken(r) ==
    r.pc = "done" /\ r.first = "401" /\ r.rbody # NoToken

\* request() r handed the body of a 401 response to its caller
ReturnedUnauthorized(r) == r.res = "error" /\ LastAnswer(r) = "401"

\* C21: unauthorized escalates only on refresh failure: a request() that received
\* 401 while a refresh token was held returns an unauthorized error only if its
\* refresh failed; after a successful refresh it never returns one.
C21_EscalatesOnlyOnRefreshFailure ==
    \A p \in Procs :
        UnauthorizedWithRefreshToken(req[p]) /\ ReturnedUnauthorized(req[p]) =>
            RefreshFailed(req[p])

\* no operation of the ApiClient is in flight, the constructor's loadTokens
\* included
Quiescent ==
    /\ loader.pc = "done"
    /\ \A p \in Procs : req[p].pc \in {"idle", "done", "returned"}

\* C22: the Token Store survives restarts: whenever no operation is in flight,
\* the token and the refresh token in durable storage are the ones held in
\* memory, so that a client constructed over that storage loads the pair of the
\* last successful login or refresh, and none after a logout or a failed refresh.
C22_SurvivesRestart ==
    Quiescent => storage.token = accessToken /\ storage.refresh = refreshToken

\* C24: a spent refresh token is never re-sent: when a refresh call that carried
\* refresh token T has succeeded, no other refresh call of the ApiClient, sent
\* before or after, carried T.
C24_SpentTokenNotResent ==
    \A p, q \in Procs :
        p # q /\ req[p].rres = "ok" /\ req[q].rbody # NoToken =>
            req[q].rbody # req[p].rbody

\* logout() invocation p has returned
LogoutReturned(p) == req[p].kind = "logout" /\ req[p].pc = "returned"

\* the Token Store is empty, in memory and in durable storage
StoreEmpty ==
    /\ accessToken = NoToken /\ refreshToken = NoToken
    /\ storage = EmptyStorage

\* this step is taken by invocation q
StepOf(q) == req'[q] # req[q]

\* C25, on the steps: once a logout() has returned and the Token Store is empty,
\* a step that puts a token or the cached user back is a step of a login or
\* register called after that logout; no step of a call that was in flight when
\* logout ran, and none of a loadTokens, does so.
C25_StaysEmpty ==
    (\E p \in Procs : LogoutReturned(p)) /\ StoreEmpty /\ ~StoreEmpty' =>
        \E p, q \in Procs : /\ LogoutReturned(p) /\ p < q
                            /\ StepOf(q) /\ req'[q].kind \in {"login", "register"}

\* C25: no session resurrection after logout: once logout() has returned, the
\* Token Store stays empty, in memory and in storage, until the next login or
\* register call succeeds; a refresh or login response that was in flight when
\* logout ran does not install tokens afterwards.
C25_NoResurrection == [][C25_StaysEmpty]_vars

\* login() invocation p has returned a session, and no operation other than
\* isAuthenticated was invoked beside it
LoginReturnedAlone(p) ==
    /\ req[p].kind = "login" /\ req[p].pc = "returned" /\ req[p].sess # NoToken
    /\ \A q \in Procs \ {p} : req[q].kind \in {"none", "isAuthenticated"}

\* C28: login is not overwritten by the background token load: after login() has
\* returned a session, the access and refresh tokens in memory are those of the
\* login response, however the loadTokens of the constructor and of
\* isAuthenticated() interleave with it.
C28_LoginNotOverwritten ==
    \A p \in Procs :
        LoginReturnedAlone(p) =>
            accessToken = req[p].sess /\ refreshToken = req[p].sess

\* the refresh call of request() r got no response
RefreshThrew(r) == r.rres = "throw"

\* C30, on the states: a request() whose refresh call got no response returns
\* the body of the original 401 response, not 'Network error', and has sent the
\* original request once.
C30_ReturnsOriginalError ==
    \A p \in Procs :
        RefreshThrew(req[p]) =>
            /\ req[p].pc \in {"clearing", "done"}
            /\ req[p].first = "401" /\ req[p].sent = 1 /\ req[p].retry = "none"
            /\ req[p].pc = "done" =>
                   /\ req[p].res = "error" /\ req[p].resOf = "first"
                   /\ req[p].res # "network"

\* C30, on the steps: the step that finds the refresh call without response does
\* what the step that finds it rejected does: both tokens are nulled and the
\* three removeItem are called; each of them leaves its key absent, and request()
\* returns when the three have completed.
C30_ClearsLikeRejected ==
    \A p \in Procs :
        /\ ~RefreshThrew(req[p]) /\ RefreshThrew(req'[p]) =>
               /\ accessToken' = NoToken /\ refreshToken' = NoToken
               /\ [req'[p] EXCEPT !.rres = "reject"] =
                      [req[p] EXCEPT !.pc = "clearing", !.rres = "reject",
                                     !.pend = {"token", "refresh", "user"}]
               /\ UNCHANGED <<storage, issued>>
        /\ RefreshThrew(req[p]) /\ StepOf(p) =>
               /\ req[p].pc = "clearing"
               /\ \A k \in req[p].pend \ req'[p].pend : storage'[k] = EmptyStorage[k]
               /\ req'[p].pc # "clearing" => req[p].pend = {} /\ req'[p].pc = "done"

NoPresence == [ev |-> "none", of |-> "none", room |-> "r1", sock |-> "X", to |-> {}]

RelayInit ==
    /\ conn = [c \in Conns |-> "none"]
    /\ rooms = [r \in Rooms |-> {}]
    /\ msgs = <<>>
    /\ store = <<>>
    /\ delivered = <<>>
    /\ presence = NoPresence

\* what supabaseAuth.auth.getUser(token) can produce: a user, an auth error / no
\* user, or a thrown exception
VerifyOutcomes == Users \cup {"invalid", "throw"}

\* what the insert into chat_messages can produce
InsertOutcomes == {"ok", "error", "throw"}

\* mutant: the error is emitted with io.emit, to every connected socket
SocketEmit_IoEmit(c) == {d \in Conns : conn[d] = "open"}

\* mutant: what is emitted on a closed socket still reaches it
SocketEmit_Buffered(c) == {c}

\* socket.emit: to the socket itself; a closed socket receives nothing
SocketEmit(c) == IF conn[c] = "open" THEN {c} ELSE {}

\* mutant: io.emit in the place of io.to(room).emit
IoTo_Everyone(r) == {c \in Conns : conn[c] = "open"}

\* io.to(room).emit: every socket in the room
IoTo(r) == rooms[r]

\* mutant: io.to(room).emit in the place of socket.to(room).emit
SocketTo_IoTo(c, r) == rooms[r]

\* socket.to(room).emit: every socket in the room except the emitting one
SocketTo(c, r) == rooms[r] \ {c}

\* mutant: a join-room that toggles the membership
Join_Toggle(reg, c, r) ==
    [reg EXCEPT ![r] = IF c \in @ THEN @ \ {c} ELSE @ \cup {c}]

\* socket.join(roomId) on the registry reg: the room's set of sockets gains c
Join(reg, c, r) == [reg EXCEPT ![r] = @ \cup {c}]

\* socket.leave(roomId) on the registry reg: the room's set of sockets loses c
Leave(reg, c, r) == [reg EXCEPT ![r] = @ \ {c}]

\* mutant: a closed socket stays in its rooms
LeaveAll_Nothing(c) == rooms

\* socket.io removes a closed socket from every room
LeaveAll(c) == [r \in Rooms |-> rooms[r] \ {c}]

\* io.on('connection')
Connect(c) ==
    /\ conn[c] = "none"
    /\ conn' = [conn EXCEPT ![c] = "open"]
    /\ UNCHANGED <<rooms, msgs, store, delivered, presence>>
    /\ UNCHANGED <<clientVars, dbVars>>

\* socket.on('join-room')
JoinRoom(c, r) ==
    /\ conn[c] = "open"
    /\ rooms' = Join(rooms, c, r)
    /\ UNCHANGED <<conn, msgs, store, delivered, presence>>
    /\ UNCHANGED <<clientVars, dbVars>>

\* socket.on('leave-room')
LeaveRoom(c, r) ==
    /\ conn[c] = "open"
    /\ rooms' = Leave(rooms, c, r)
    /\ UNCHANGED <<conn, msgs, store, delivered, presence>>
    /\ UNCHANGED <<clientVars, dbVars>>

\* socket.on('send-message'), up to await getUser(token)
SendMessage(c, r, u) ==
    /\ conn[c] = "open"
    /\ msgs' = Append(msgs, [conn |-> c, room |-> r, sender |-> u, pc |-> "verifying",
                             who |-> "none", errN |-> 0, errTo |-> {}])
    /\ UNCHANGED <<conn, rooms, store, delivered, presence>>
    /\ UNCHANGED <<clientVars, dbVars>>

\* socket.emit('error', ...) of the handler of message m, which ends in state pc;
\* v is what getUser(token) produced
EmitError(m, pc, v) ==
    msgs' = [msgs EXCEPT ![m].pc = pc, ![m].who = v, ![m].errN = @ + 1,
                         ![m].errTo = @ \cup SocketEmit(msgs[m].conn)]

\* mutant: the verified identity is not compared with senderId
Authorized_AnyUser(v, senderId) == v \in Users

\* mutant: a connection that once sent a verified message is trusted afterwards
Authorized_OnceVerified(v, senderId) ==
    \/ v \in Users /\ v = senderId
    \/ v \in Users \cup {"invalid"} /\ \E k \in DOMAIN msgs : msgs[k].pc = "sent"

\* !(authError || !user || user.id !== senderId)
Authorized(v, senderId) == v \in Users /\ v = senderId

\* socket.on('send-message'), after await getUser(token)
VerifyDone(m, v) ==
    /\ msgs[m].pc = "verifying"
    /\ IF v = "throw" THEN EmitError(m, "failed", v)
       ELSE IF ~Authorized(v, msgs[m].sender) THEN EmitError(m, "rejected", v)
       ELSE msgs' = [msgs EXCEPT ![m].pc = "persisting", ![m].who = v]
    /\ UNCHANGED <<conn, rooms, store, delivered, presence>>
    /\ UNCHANGED <<clientVars, dbVars>>

\* the receive-message event of message m, saved as row number row
ReceiveMessage(m, row, to) == [msg |-> m, row |-> row, room |-> msgs[m].room, to |-> to]

\* mutant: socket.to(roomId).emit, which leaves the sender out
Broadcast_SocketTo(m, row) ==
    delivered' = Append(delivered,
                        ReceiveMessage(m, row, SocketTo(msgs[m].conn, msgs[m].room)))

\* mutant: the broadcasts are emitted in the order the messages arrived
Broadcast_ArrivalOrder(m, row) ==
    LET e == ReceiveMessage(m, row, IoTo(msgs[m].room))
        before == SelectSeq(delivered, LAMBDA d : d.msg < m)
        after == SelectSeq(delivered, LAMBDA d : d.msg > m)
    IN  delivered' = before \o <<e>> \o after

\* mutant: the broadcast is also emitted on the sender's socket
Broadcast_AndSender(m, row) ==
    delivered' = Append(delivered,
                        ReceiveMessage(m, row, IoTo(msgs[m].room) \cup {msgs[m].conn}))

\* io.to(roomId).emit('receive-message', savedMessage)
Broadcast(m, row) ==
    delivered' = Append(delivered, ReceiveMessage(m, row, IoTo(msgs[m].room)))

\* mutant: the broadcast is emitted without looking at the insert's error
Broadcasts_Always(o) == TRUE

\* if (error) throw error: the broadcast is reached on success only
Broadcasts(o) == o = "ok"

\* socket.on('send-message'), after await insert(...).select().single()
InsertDone(m, o) ==
    /\ msgs[m].pc = "persisting"
    /\ IF o = "ok"
         THEN /\ store' = Append(store, [id |-> Len(store) + 1, msg |-> m,
                                         room |-> msgs[m].room, sender |-> msgs[m].sender])
              /\ msgs' = [msgs EXCEPT ![m].pc = "sent"]
         ELSE /\ EmitError(m, "failed", msgs[m].who)
              /\ UNCHANGED store
    /\ IF Broadcasts(o) THEN Broadcast(m, Len(store) + 1) ELSE UNCHANGED delivered
    /\ UNCHANGED <<conn, rooms, presence>>
    /\ UNCHANGED <<clientVars, dbVars>>

\* the events the presence handlers listen to
TypingEvents == {"typing", "stop-typing"}

\* the event a presence handler emits for the event it received
Relayed(ev) == IF ev = "typing" THEN "user-typing" ELSE "user-stop-typing"

\* socket.on('typing') and socket.on('stop-typing')
Typing(c, r, ev) ==
    /\ conn[c] = "open"
    /\ presence' = [ev |-> Relayed(ev), of |-> ev, room |-> r, sock |-> c,
                    to |-> SocketTo(c, r)]
    /\ UNCHANGED <<conn, rooms, msgs, store, delivered>>
    /\ UNCHANGED <<clientVars, dbVars>>

\* socket.on('disconnect')
Disconnect(c) ==
    /\ conn[c] = "open"
    /\ conn' = [conn EXCEPT ![c] = "closed"]
    /\ rooms' = LeaveAll(c)
    /\ UNCHANGED <<msgs, store, delivered, presence>>
    /\ UNCHANGED <<clientVars, dbVars>>

\* the relay without its presence events, which read and write nothing the
\* send-message handler touches
ChatNext ==
    \/ \E c \in Conns : Connect(c)
    \/ \E c \in Conns, r \in Rooms : JoinRoom(c, r)
    \/ \E c \in Conns, r \in Rooms : LeaveRoom(c, r)
    \/ \E c \in Conns, r \in Rooms, u \in SenderIds :
           Len(msgs) < MaxMsgs /\ SendMessage(c, r, u)
    \/ \E m \in DOMAIN msgs, v \in VerifyOutcomes : VerifyDone(m, v)
    \/ \E m \in DOMAIN msgs, o \in InsertOutcomes : InsertDone(m, o)
    \/ \E c \in Conns : Disconnect(c)

\* the whole relay
RelayNext ==
    \/ \E c \in Conns : Connect(c)
    \/ \E c \in Conns, r \in Rooms : JoinRoom(c, r)
    \/ \E c \in Conns, r \in Rooms : LeaveRoom(c, r)
    \/ \E c \in Conns, r \in Rooms, u \in SenderIds :
           Len(msgs) < MaxChat /\ SendMessage(c, r, u)
    \/ \E m \in DOMAIN msgs, v \in VerifyOutcomes : VerifyDone(m, v)
    \/ \E m \in DOMAIN msgs, o \in InsertOutcomes : InsertDone(m, o)
    \/ \E c \in Conns, r \in Rooms, ev \in TypingEvents : Typing(c, r, ev)
    \/ \E c \in Conns : Disconnect(c)

(***************************************************************************)
(* Database: row level security of mother_profiles                         *)
(***************************************************************************)
\* the users of auth.users
DbUsers == {"a", "b", "c"}

\* the roles handle_new_user creates a profile for
Roles == {"mother", "doctor", "admin"}

NoSelect == [uid |-> "nobody", rows |-> {}, assigned |-> {}]

DbInit ==
    /\ profiles = [u \in DbUsers |-> "none"]
    /\ appointments = {}
    /\ selected = NoSelect

\* is_doctor(user_uuid): a row of doctor_profiles has this user_id
is_doctor(u) == profiles[u] = "doctor"

\* is_mother(user_uuid): a row of mother_profiles has this user_id
is_mother(u) == profiles[u] = "mother"

\* policy "Doctors can view mother profiles" ON mother_profiles FOR SELECT:
\* USING (is_doctor(auth.uid())), for the row of mother m
DoctorsCanViewMotherProfiles(uid, m) == is_doctor(uid)

\* trigger on_auth_user_created: handle_new_user inserts the profile of the role
SignUp(u, role) ==
    /\ profiles[u] = "none"
    /\ profiles' = [profiles EXCEPT ![u] = role]
    /\ UNCHANGED <<appointments, selected>>
    /\ UNCHANGED <<clientVars, relayVars>>

\* a row of appointments that joins doctor d with mother m
InsertAppointment(d, m) ==
    /\ is_doctor(d) /\ is_mother(m)
    /\ <<d, m>> \notin appointments
    /\ appointments' = appointments \cup {<<d, m>>}
    /\ UNCHANGED <<profiles, selected>>
    /\ UNCHANGED <<clientVars, relayVars>>

\* SELECT on mother_profiles by the authenticated user uid: the rows the policy
\* admits (permissive policies add rows, none takes rows away)
SelectMotherProfiles(uid) ==
    /\ profiles[uid] # "none"
    /\ selected' = [uid |-> uid,
                    rows |-> {m \in DbUsers : is_mother(m) /\
                                               DoctorsCanViewMotherProfiles(uid, m)},
                    assigned |-> {m \in DbUsers : <<uid, m>> \in appointments}]
    /\ UNCHANGED <<profiles, appointments>>
    /\ UNCHANGED <<clientVars, relayVars>>

PolicyNext ==
    \/ \E u \in DbUsers, role \in Roles : SignUp(u, role)
    \/ \E d \in DbUsers, m \in DbUsers : InsertAppointment(d, m)
    \/ \E u \in DbUsers : SelectMotherProfiles(u)

\* a freshly constructed ApiClient over the storage of an earlier run, a relay
\* without sockets and a database without users
Init == ClientInit /\ RelayInit /\ DbInit

\* a relay without sockets (the ApiClient is not part of the relay)
ServerInit == ClientInit /\ storage = EmptyStorage /\ RelayInit /\ DbInit

\* the database under sign-ups, appointments and SELECTs on mother_profiles
PolicySpec == ServerInit /\ [][PolicyNext]_vars

\* the ApiClient under plain API calls; the relay stays in its initial state
ClientSpec == Init /\ [][ClientNext]_vars

\* the ApiClient under all its public operations
SessionSpec == Init /\ [][SessionNext]_vars

\* the send-message relay: MaxMsgs messages, no presence events
ChatSpec == ServerInit /\ [][ChatNext]_vars

\* the whole relay: MaxChat messages and the presence events
RelaySpec == ServerInit /\ [][RelayNext]_vars

\* the answer of getUser(token) always arrives and the event loop resumes the
\* handler; nothing makes the insert answer
VerifyStep == \E m \in DOMAIN msgs, v \in VerifyOutcomes : VerifyDone(m, v)

ChatFairSpec == ServerInit /\ [][ChatNext]_vars /\ WF_vars(VerifyStep)

(***************************************************************************)
(* Claims about the relay                                                  *)
(***************************************************************************)
Persisted(m) == \E j \in DOMAIN store : store[j].msg = m

Delivered(m) == \E i \in DOMAIN delivered : delivered[i].msg = m

\* C5: broadcast only if persisted: every receive-message that was emitted is the
\* row its insert saved, no receive-message exists for a message whose insert has
\* not completed, and none for a message whose handling failed.
C5_BroadcastOnlyPersisted ==
    /\ \A i \in DOMAIN delivered :
           /\ delivered[i].row \in DOMAIN store
           /\ store[delivered[i].row].msg = delivered[i].msg
           /\ store[delivered[i].row].room = delivered[i].room
    /\ \A m \in DOMAIN msgs : msgs[m].pc # "sent" => ~Delivered(m)

\* C5 witness: one insert succeeded and was broadcast to a member, another failed
C5_Witness ==
    /\ \E m \in DOMAIN msgs : msgs[m].pc = "sent" /\ Delivered(m)
    /\ \E m \in DOMAIN msgs : msgs[m].pc = "failed" /\ msgs[m].who = msgs[m].sender
    /\ \E i \in DOMAIN delivered : delivered[i].to # {}

\* the verification of message m is over and did not yield senderId
VerificationFailed(m) == msgs[m].who # "none" /\ msgs[m].who # msgs[m].sender

\* C6: identity mismatch is rejected: a send-message whose token fails
\* verification, or verifies to another identity than senderId, gets exactly one
\* error event, emitted on the originating socket and received by no other
\* connection; no row is saved and no receive-message is emitted for it.
C6_MismatchRejected ==
    \A m \in DOMAIN msgs :
        VerificationFailed(m) =>
            /\ msgs[m].pc \in {"rejected", "failed"}
            /\ msgs[m].errN = 1
            /\ msgs[m].errTo \subseteq {msgs[m].conn}
            /\ conn[msgs[m].conn] = "open" => msgs[m].errTo = {msgs[m].conn}
            /\ ~Persisted(m)
            /\ ~Delivered(m)

\* C6 witness: a token that verified to another user was rejected while the
\* other socket was a member of the room
C6_Witness ==
    \E m \in DOMAIN msgs :
        /\ msgs[m].who = "u2" /\ msgs[m].sender = "u1" /\ msgs[m].pc = "rejected"
        /\ msgs[m].errTo = {msgs[m].conn}
        /\ \E c \in Conns : c # msgs[m].conn /\ c \in rooms[msgs[m].room]

\* the receive-message emitted by this step, if any
NewBroadcast == delivered'[Len(delivered')]

\* C7 as claimed: every verified and persisted message is emitted to every
\* current member of roomId, and the sender's own connection is among the
\* recipients.
C7_ToAllMembersAndSender ==
    /\ [](\A m \in DOMAIN msgs : msgs[m].pc = "sent" => Delivered(m))
    /\ [][Len(delivered') > Len(delivered) =>
             /\ NewBroadcast.to = rooms[NewBroadcast.room]
             /\ msgs[NewBroadcast.msg].conn \in NewBroadcast.to]_vars

\* C7 amended: every verified and persisted message is emitted to every current
\* member of roomId, the sender's own connection included whenever it is a member
\* of roomId at that time.
C7_ToAllMembers ==
    /\ [](\A m \in DOMAIN msgs : msgs[m].pc = "sent" => Delivered(m))
    /\ [][Len(delivered') > Len(delivered) =>
             /\ NewBroadcast.to = rooms[NewBroadcast.room]
             /\ msgs[NewBroadcast.msg].conn \in rooms[NewBroadcast.room] =>
                    msgs[NewBroadcast.msg].conn \in NewBroadcast.to]_vars

\* C7 witness: a message was received by both members of its room, its sender
\* among them
C7_Witness ==
    \E i \in DOMAIN delivered :
        delivered[i].to = Conns /\ msgs[delivered[i].msg].pc = "sent"

\* the connected members of room r after this step
OpenMembersAfter(r) == {c \in rooms'[r] : conn'[c] = "open"}

\* every broadcast emitted by this step reaches connected members of its room only
BroadcastsToOpenMembers ==
    /\ Len(delivered') > Len(delivered) =>
           NewBroadcast.to \subseteq OpenMembersAfter(NewBroadcast.room)
    /\ presence' # presence =>
           presence'.to \subseteq OpenMembersAfter(presence'.room)

\* C8: disconnect cleanup: a closed connection is a member of no room, and every
\* receive-message, user-typing and user-stop-typing emitted afterwards reaches
\* members that are still connected only.
C8_DisconnectCleanup ==
    /\ [](\A c \in Conns : conn[c] = "closed" => \A r \in Rooms : c \notin rooms[r])
    /\ [][BroadcastsToOpenMembers]_vars

\* C8 witness: Y was reached in r1 by X's typing and has disconnected; X's message
\* to r1 was received by X only
C8_Witness ==
    /\ conn["Y"] = "closed"
    /\ presence.room = "r1" /\ presence.sock = "X" /\ "Y" \in presence.to
    /\ Len(delivered) = 1
    /\ delivered[1].room = "r1" /\ delivered[1].to = {"X"}
    /\ msgs[delivered[1].msg].conn = "X"

\* C9: per-room broadcast order follows persistence order: of two receive-message
\* events of one room, the one whose row was saved first was emitted first.
C9_PersistenceOrder ==
    \A i, j \in DOMAIN delivered :
        i < j /\ delivered[i].room = delivered[j].room =>
            delivered[i].row < delivered[j].row

\* C9 witness: two messages of one room were saved, and broadcast, in the reverse
\* of their arrival order
C9_Witness ==
    /\ Len(delivered) = 2
    /\ delivered[1].room = delivered[2].room
    /\ delivered[1].msg > delivered[2].msg
    /\ delivered[1].to # {}

\* the insert of message m is pending and its originating connection is open
InsertPending(m) ==
    /\ m \in DOMAIN msgs
    /\ msgs[m].pc = "persisting"
    /\ conn[msgs[m].conn] = "open"

\* C10: bounded wait on persistence: if the insert of a verified message never
\* completes, the originating connection (staying connected) eventually receives
\* an error event for that message.
C10_BoundedWait ==
    \A m \in 1..MaxMsgs :
        <>[]InsertPending(m) =>
            <>(m \in DOMAIN msgs /\ msgs[m].errTo = {msgs[m].conn})

\* the handling of message m ended in an error: unauthorized, or a failure of
\* the verification or of the insert
Failed(m) == msgs[m].pc \in {"rejected", "failed"}

\* C11, on the states: a failed send-message emitted its error on the originating
\* connection only and produced neither a row nor a receive-message, and the
\* handlers of the other send-message events can still verify, insert and
\* broadcast.
C11_FailureScoped ==
    \A m \in DOMAIN msgs :
        Failed(m) =>
            /\ msgs[m].errN = 1
            /\ msgs[m].errTo \subseteq {msgs[m].conn}
            /\ ~Persisted(m) /\ ~Delivered(m)
            /\ \A k \in DOMAIN msgs :
                   /\ msgs[k].pc = "verifying" => ENABLED VerifyDone(k, msgs[k].sender)
                   /\ msgs[k].pc = "persisting" => ENABLED InsertDone(k, "ok")

\* C11, on the steps: the step in which a send-message fails changes nothing but
\* that message's own record: no row, no broadcast, no membership, no other
\* message.
C11_FailureStep ==
    \A m \in DOMAIN msgs :
        ~Failed(m) /\ msgs'[m].pc \in {"rejected", "failed"} =>
            /\ UNCHANGED <<store, delivered, rooms, conn>>
            /\ \A k \in DOMAIN msgs \ {m} : msgs'[k] = msgs[k]

\* C11: failure isolation on the relay: every failure outcome of a send-message
\* emits events on the originating connection only, and neither prevents nor
\* alters the persistence and broadcast of a send-message that another connection
\* in the same room is sending concurrently.
C11_FailureIsolation == []C11_FailureScoped /\ [][C11_FailureStep]_vars

\* C11 witness: of two send-message events that two members of one room sent, one
\* failed at the insert and told its own socket only, the other was saved and
\* received by both members
C11_Witness ==
    \E m, k \in DOMAIN msgs :
        /\ msgs[m].conn # msgs[k].conn /\ msgs[m].room = msgs[k].room
        /\ msgs[m].pc = "failed" /\ msgs[m].who = msgs[m].sender
        /\ msgs[m].errTo = {msgs[m].conn}
        /\ msgs[k].pc = "sent" /\ Persisted(k)
        /\ \E i \in DOMAIN delivered : delivered[i].msg = k /\ delivered[i].to = Conns

\* C12: per-message authorization: a row is saved only for a send-message whose
\* own token verified to an identity equal to its senderId; a message whose token
\* is invalid, or verifies to another identity, is not saved, whatever was
\* verified earlier on the same connection.
C12_PerMessageAuthorization ==
    /\ \A j \in DOMAIN store :
           /\ msgs[store[j].msg].who \in Users
           /\ msgs[store[j].msg].who = store[j].sender
    /\ \A m \in DOMAIN msgs :
           msgs[m].pc \in {"persisting", "sent"} => msgs[m].who = msgs[m].sender
    /\ \A k, m \in DOMAIN msgs :
           /\ k < m /\ msgs[k].conn = msgs[m].conn /\ msgs[k].pc = "sent"
           /\ VerificationFailed(m)
           => ~Persisted(m) /\ ~Delivered(m)

\* C12 witness: a connection's first message was verified and saved, its second
\* one carried an invalid token and was rejected
C12_Witness ==
    /\ Len(msgs) = 2 /\ Len(store) = 1
    /\ msgs[1].conn = msgs[2].conn
    /\ msgs[1].pc = "sent" /\ store[1].msg = 1
    /\ msgs[2].who = "invalid" /\ msgs[2].pc = "rejected"

\* C13, on the steps: a presence event is relayed under its user- name to the
\* members of the room other than the emitting socket, and the step saves no row
\* and emits no error and no receive-message.
C13_TypingStep ==
    presence' # presence =>
        /\ presence'.of \in TypingEvents
        /\ presence'.ev = (IF presence'.of = "typing" THEN "user-typing"
                                                      ELSE "user-stop-typing")
        /\ presence'.to = rooms[presence'.room] \ {presence'.sock}
        /\ presence'.sock \notin presence'.to
        /\ UNCHANGED <<store, msgs, delivered, rooms, conn>>

\* C13: typing presence excludes the sender: each typing / stop-typing event is
\* relayed as user-typing / user-stop-typing to every member of the room other
\* than the connection that sent it, never back to that connection, is never
\* persisted, and never causes an error event.
C13_TypingExcludesSender == [][C13_TypingStep]_vars

\* C13 witness: X, a member of r1 together with Y, sent stop-typing for r1; Y
\* alone received user-stop-typing
C13_Witness ==
    /\ presence.of = "stop-typing" /\ presence.ev = "user-stop-typing"
    /\ presence.sock = "X" /\ presence.room = "r1"
    /\ rooms["r1"] = {"X", "Y"} /\ presence.to = {"Y"}

\* C14: idempotent membership: for every connection c and room r, joining twice
\* gives the registry that joining once gives, leaving a room c is not in gives
\* the registry back unchanged, and neither operation changes the membership of
\* another connection or of another room.
C14_IdempotentMembership ==
    \A c \in Conns, r \in Rooms :
        /\ Join(Join(rooms, c, r), c, r) = Join(rooms, c, r)
        /\ c \in rooms[r] => Join(rooms, c, r) = rooms
        /\ c \notin rooms[r] => Leave(rooms, c, r) = rooms
        /\ \A r2 \in Rooms \ {r} :
               Join(rooms, c, r)[r2] = rooms[r2] /\ Leave(rooms, c, r)[r2] = rooms[r2]
        /\ \A c2 \in Conns \ {c} :
               /\ (c2 \in Join(rooms, c, r)[r]) = (c2 \in rooms[r])
               /\ (c2 \in Leave(rooms, c, r)[r]) = (c2 \in rooms[r])

\* C14 witness: X is a member of r1 and not of r2, Y of r2 and not of r1: joining
\* r1 again and leaving r2 are both open to X
C14_Witness ==
    /\ rooms["r1"] = {"X"} /\ rooms["r2"] = {"Y"}
    /\ conn["X"] = "open" /\ conn["Y"] = "open"
    /\ ENABLED JoinRoom("X", "r1") /\ ENABLED LeaveRoom("X", "r2")

\* the insert of message m completes in this step
Completes(m) == msgs[m].pc = "persisting" /\ msgs'[m].pc # "persisting"

\* the membership of a room changes in this step
MembershipChanges == rooms' # rooms

\* C26, on the steps: the step in which the insert of a message succeeds emits
\* its receive-message to the members roomId has in that step; a step that
\* changes a membership while an insert is pending neither completes that insert
\* nor emits anything, so that a connection that joined meanwhile is a recipient
\* and one that left or disconnected meanwhile is not.
C26_BroadcastStep ==
    /\ Len(delivered') > Len(delivered) =>
           /\ Completes(NewBroadcast.msg)
           /\ Len(delivered') = Len(delivered) + 1
           /\ NewBroadcast.to = rooms[msgs[NewBroadcast.msg].room]
           /\ ~MembershipChanges
    /\ MembershipChanges =>
           /\ delivered' = delivered
           /\ \A m \in DOMAIN msgs : msgs[m].pc = "persisting" => msgs'[m] = msgs[m]

\* C26: recipients are fixed at broadcast time: the connections that receive a
\* receive-message are the members of roomId at the moment persistence completes,
\* not at the moment the send-message arrived.
C26_RecipientsAtBroadcastTime == [][C26_BroadcastStep]_vars

\* C26 witness: of two messages X sent to r1, the second was broadcast to X alone
\* and the first, which arrived earlier and was still pending then, to X and Y: Y
\* joined r1 while the first message was pending, and received it
C26_Witness ==
    /\ Len(msgs) = 2 /\ Len(delivered) = 2
    /\ msgs[1].conn = "X" /\ msgs[2].conn = "X"
    /\ msgs[1].room = "r1" /\ msgs[2].room = "r1"
    /\ delivered[1].msg = 2 /\ delivered[1].to = {"X"}
    /\ delivered[2].msg = 1 /\ delivered[2].to = {"X", "Y"}

\* the socket that sent message m has disconnected
SenderGone(m) == conn[msgs[m].conn] = "closed"

\* C27, on the states: the handler of a message whose socket has disconnected can
\* still resume after the verification and after the insert, and a message that
\* was saved was broadcast.
C27_HandlerCompletes ==
    \A m \in DOMAIN msgs :
        /\ SenderGone(m) /\ msgs[m].pc = "verifying" =>
               ENABLED VerifyDone(m, msgs[m].sender)
        /\ SenderGone(m) /\ msgs[m].pc = "persisting" => ENABLED InsertDone(m, "ok")
        /\ Persisted(m) => Delivered(m)

\* C27, on the steps: when the handler of a message whose socket has disconnected
\* ends, a saved message is broadcast to the members the room has left, and
\* neither the receive-message nor an error reaches the disconnected socket.
C27_NothingToTheGone ==
    \A m \in DOMAIN msgs :
        SenderGone(m) /\ msgs'[m] # msgs[m] =>
            /\ msgs'[m].errTo = msgs[m].errTo
            /\ msgs'[m].pc = "sent" =>
                   /\ Len(delivered') = Len(delivered) + 1
                   /\ NewBroadcast.msg = m
                   /\ NewBroadcast.to = rooms[msgs[m].room]
                   /\ msgs[m].conn \notin NewBroadcast.to

\* C27: a sender's disconnect does not cancel its in-flight message: the handler
\* still runs to completion, a successfully persisted message is still broadcast
\* to the remaining members of the room, and nothing is delivered to the
\* disconnected connection.
C27_DisconnectDoesNotCancel == []C27_HandlerCompletes /\ [][C27_NothingToTheGone]_vars

\* C27 witness: X disconnected while its two messages were pending; the one whose
\* handler failed emitted its error to nobody, the one that was saved was received
\* by Y, the member r1 had left
C27_Witness ==
    /\ Len(msgs) = 2 /\ conn["X"] = "closed"
    /\ msgs[1].conn = "X" /\ msgs[2].conn = "X"
    /\ msgs[1].pc = "failed" /\ msgs[1].errN = 1 /\ msgs[1].errTo = {}
    /\ msgs[2].pc = "sent" /\ msgs[2].room = "r1"
    /\ Len(delivered) = 1 /\ delivered[1].msg = 2 /\ delivered[1].to = {"Y"}

\* C29, on the states: every open socket can send to every room, member or not,
\* and a message that was saved emitted no error.
C29_NoMembershipAsked ==
    /\ \A c \in Conns, r \in Rooms, u \in SenderIds :
           conn[c] = "open" => ENABLED SendMessage(c, r, u)
    /\ \A m \in DOMAIN msgs :
           /\ msgs[m].pc = "verifying" => ENABLED VerifyDone(m, msgs[m].sender)
           /\ msgs[m].pc = "persisting" => ENABLED InsertDone(m, "ok")
           /\ msgs[m].pc = "sent" =>
                  Persisted(m) /\ Delivered(m) /\ msgs[m].errN = 0 /\ msgs[m].errTo = {}

\* C29, on the steps: the step that saves the message of a socket that is not a
\* member of roomId emits the receive-message to the members of roomId, and
\* neither it nor an error to the sender.
C29_NonMemberStep ==
    \A m \in DOMAIN msgs :
        Completes(m) /\ msgs'[m].pc = "sent" /\ msgs[m].conn \notin rooms[msgs[m].room] =>
            /\ Len(delivered') = Len(delivered) + 1
            /\ NewBroadcast.msg = m
            /\ NewBroadcast.to = rooms[msgs[m].room]
            /\ msgs[m].conn \notin NewBroadcast.to
            /\ msgs'[m].errN = 0 /\ msgs'[m].errTo = {}

\* C29: sending requires no room membership: a verified send-message is persisted
\* and broadcast to the members of roomId whether or not the originating
\* connection has joined roomId; a sender that is not a member receives neither
\* the receive-message nor an error event.
C29_NoMembershipRequired == []C29_NoMembershipAsked /\ [][C29_NonMemberStep]_vars

\* C29 witness: X, connected and not a member of r1 when its message to r1 was
\* saved, got nothing; Y, the member, received it
C29_Witness ==
    /\ Len(msgs) >= 1 /\ msgs[1].conn = "X" /\ msgs[1].room = "r1"
    /\ msgs[1].pc = "sent" /\ msgs[1].errN = 0
    /\ conn["X"] = "open"
    /\ \E i \in DOMAIN delivered : delivered[i].msg = 1 /\ delivered[i].to = {"Y"}

(***************************************************************************)
(* Claims about the row level security                                     *)
(***************************************************************************)
\* C23: row level security limits doctors to assigned patients: the rows of
\* mother_profiles a user with a doctor profile reads are rows of mothers that
\* doctor has an appointment with; a doctor without one with a mother does not
\* read her row.
C23_DoctorsReadAssignedOnly ==
    selected.uid \in DbUsers /\ is_doctor(selected.uid) =>
        selected.rows \subseteq selected.assigned

====
